---- MODULE Spec2Model ----
(***************************************************************************)
(* Model of src/app.rs: the Action channel, the 25 ms poll tick            *)
(* (App::setup_action_channel) and its routing match, the single           *)
(* notification slot, and the shared Arc<Mutex<u8>> guard handed to the    *)
(* View, Header and Player components.                                     *)
(***************************************************************************)
EXTENDS Integers, Sequences, FiniteSets, TLC

\* ---------------------------------------------------------------- bounds
MaxSends == 3        \* direct sends by the components in Spec
MaxRouteSends == 1   \* sends in SpecRoute (drawn from every Action value)
MaxClosedSends == 2  \* sends in SpecClosed
MaxLiveSends == 2    \* sends in SpecLive
MaxAdvance == 2      \* advance() calls in SpecGuard
NumTasks == 2        \* background tasks in SpecGuard

\* ------------------------------------------------------------- constants
U8 == 256            \* width of the guard cell, Mutex<u8>
NoGen == <<>>        \* no generation captured: None, where <<g>> is Some(g)

Val == {"a", "b"}    \* payload values (strings, ids, records, lists)

\* ------------------------------------------------------------ Action enum
\* number of payload fields of every variant of enum Action
Arity ==
  [ SwitchStackMain |-> 0, SwitchStackSub |-> 3, SwitchHeaderBar |-> 1,
    RefreshHeaderUser |-> 0, RefreshHeaderUserLogin |-> 1,
    RefreshHeaderUserLogout |-> 0, RefreshHome |-> 0, RefreshHomeView |-> 2,
    RefreshSubUpView |-> 2, RefreshSubLowView |-> 1,
    RefreshFoundViewInit |-> 1, RefreshFoundView |-> 1, RefreshMine |-> 0,
    MineHideAll |-> 0, MineShowFm |-> 0, RefreshMineViewInit |-> 1,
    RefreshMineView |-> 2, RefreshMineFm |-> 1, RefreshMineSidebar |-> 1,
    PlayerFm |-> 0, FmLike |-> 0, FmDislike |-> 0,
    RefreshMineFmPlayerList |-> 0, CancelCollection |-> 0, Search |-> 1,
    PlayerInit |-> 2, Player |-> 2, PlayerSubpages |-> 0, PlayerFound |-> 0,
    PlayerMine |-> 0, Login |-> 2, Logout |-> 0, ShowNotice |-> 1,
    DailyTask |-> 0 ]

Kinds == DOMAIN Arity

Tuples(n) == [1..n -> Val]

Cmd(k, a) == [kind |-> k, args |-> a]

Action == UNION { { Cmd(k, a) : a \in Tuples(Arity[k]) } : k \in Kinds }

\* ------------------------------------------------------- routing (match)
Call(c, m, a) == [comp |-> c, method |-> m, args |-> a]

\* an FmDislike arm that forgets to skip the playing track
FmDislikeNoForward == << Call("view", "dislike_fm", <<>>) >>

\* the Action::FmDislike arm: self.player.forward(); self.view.dislike_fm();
FmDislikeArm == << Call("player", "forward", <<>>),
                   Call("view", "dislike_fm", <<>>) >>

\* a PlayerFm arm that hands the Command to the Player
PlayerFmToPlayer == << Call("player", "play_fm", <<>>) >>

\* the Action::PlayerFm arm: self.view.play_fm()
PlayerFmArm == << Call("view", "play_fm", <<>>) >>

\* a Login arm that passes the password where the name belongs
LoginArmSwapped(a) == << Call("header", "login", <<a[2], a[1]>>) >>

\* the Action::Login(name, pass) arm: self.header.login(name, pass)
LoginArm(a) == << Call("header", "login", <<a[1], a[2]>>) >>

\* the handler calls of one arm of `match action`, in program order
Route(action) ==
  LET a == action.args
      k == action.kind
  IN CASE k = "SwitchHeaderBar" -> << Call("header", "switch_header", <<a[1]>>) >>
       [] k = "RefreshHeaderUser" -> << Call("header", "update_user_button", <<>>) >>
       [] k = "RefreshHeaderUserLogin" -> << Call("header", "update_user_login", <<a[1]>>) >>
       [] k = "RefreshHeaderUserLogout" -> << Call("header", "update_user_logout", <<>>) >>
       [] k = "RefreshHome" -> << Call("view", "update_home", <<>>) >>
       [] k = "RefreshHomeView" -> << Call("view", "update_home_view", <<a[1], a[2]>>) >>
       [] k = "RefreshSubUpView" -> << Call("view", "update_sub_up_view", <<a[1], a[2]>>) >>
       [] k = "RefreshSubLowView" -> << Call("view", "update_sub_low_view", <<a[1]>>) >>
       [] k = "SwitchStackMain" -> << Call("view", "switch_stack_main", <<>>) >>
       [] k = "SwitchStackSub" -> << Call("view", "switch_stack_sub", <<a[1], a[2], a[3]>>) >>
       [] k = "RefreshFoundViewInit" -> << Call("view", "update_found_view_data", <<a[1]>>) >>
       [] k = "RefreshFoundView" -> << Call("view", "update_found_view", <<a[1]>>) >>
       [] k = "RefreshMine" -> << Call("view", "mine_init", <<>>) >>
       [] k = "MineHideAll" -> << Call("view", "mine_hide_all", <<>>) >>
       [] k = "MineShowFm" -> << Call("view", "mine_show_fm", <<>>) >>
       [] k = "RefreshMineViewInit" -> << Call("view", "update_mine_view_data", <<a[1]>>) >>
       [] k = "RefreshMineView" -> << Call("view", "update_mine_view", <<a[1], a[2]>>) >>
       [] k = "RefreshMineFm" -> << Call("view", "update_mine_fm", <<a[1]>>) >>
       [] k = "RefreshMineSidebar" -> << Call("view", "update_mine_sidebar", <<a[1]>>) >>
       [] k = "RefreshMineFmPlayerList" -> << Call("view", "refresh_fm_player_list", <<>>) >>
       [] k = "PlayerFm" -> PlayerFmArm
       [] k = "FmLike" -> << Call("view", "like_fm", <<>>) >>
       [] k = "FmDislike" -> FmDislikeArm
       [] k = "CancelCollection" -> << Call("view", "cancel_collection", <<>>) >>
       [] k = "Search" -> << Call("view", "switch_stack_search", <<a[1]>>) >>
       [] k = "Login" -> LoginArm(a)
       [] k = "Logout" -> << Call("header", "logout", <<>>) >>
       [] k = "DailyTask" -> << Call("header", "daily_task", <<>>) >>
       [] k = "PlayerInit" -> << Call("player", "initialize_player", <<a[1], a[2]>>) >>
       [] k = "Player" -> << Call("player", "player", <<a[1], a[2]>>) >>
       [] k = "ShowNotice" -> << Call("notice", "show", <<a[1]>>) >>
       [] k = "PlayerSubpages" -> << Call("view", "play_subpages", <<>>) >>
       [] k = "PlayerFound" -> << Call("view", "play_found", <<>>) >>
       [] k = "PlayerMine" -> << Call("view", "play_mine", <<>>) >>

RECURSIVE CallsOn(_, _)
\* the calls of a call sequence that land on component c, in order
CallsOn(calls, c) ==
  IF calls = <<>> THEN <<>>
  ELSE IF Head(calls).comp = c
       THEN <<Head(calls)>> \o CallsOn(Tail(calls), c)
       ELSE CallsOn(Tail(calls), c)

\* ------------------------------------------------------------------ state
VARIABLES
  chan,       \* the unbounded channel: messages sent and not yet received
  senders,    \* the live Sender handles of the channel
  disp,       \* the poll timer: "polling", or "panicked" after unreachable!()
  view,       \* calls the View has received, in order
  header,     \* calls the Header has received, in order
  player,     \* calls the PlayerWrapper has received, in order
  notice,     \* App.notice: <<>> for None, <<n>> for Some(n)
  overlay,    \* notifications attached to App.overlay
  destroyed,  \* notifications on which destroy() was called
  created,    \* number of notifications built by mark_all_notif
  data,       \* the guard cell, Arc<Mutex<u8>>
  guardOf,    \* the cell each component's guard handle refers to
  copies,     \* cells of their own, for handles that are not to the Arc's cell
  tasks,      \* background tasks: position, captured and observed generation
  sentLog,    \* history: every message ever sent, in channel order
  handled,    \* history: every message a tick has taken out, in order
  lastTick    \* what the most recent tick returned, drained and called

vars == << chan, senders, disp, view, header, player, notice, overlay,
           destroyed, created, data, guardOf, copies, tasks, sentLog,
           handled, lastTick >>

handles == << guardOf, copies >>

downstream == << view, header, player, notice, overlay, destroyed, created >>

Components == {"view", "header", "player"}
TaskIds == 1..NumTasks

Comp(c) == << c, 0 >>          \* the sender clone a component holds
Task(t) == << "task", t >>     \* the sender clone a background task holds
Producers == { Comp(c) : c \in Components } \cup { Task(t) : t \in TaskIds }

\* number of messages producer p has sent so far
SentBy(log, p) == Cardinality({ i \in 1..Len(log) : log[i].from = p })

\* a message in flight: the Action, plus who sent it, its per-producer
\* sequence number and the generation its sender had captured (history)
Msg(c, p, log, g) == [cmd |-> c, from |-> p, seq |-> SentBy(log, p) + 1, gen |-> g]

\* the Actions the components send directly in Spec
SampleCmds ==
  { Cmd("ShowNotice", <<"a">>), Cmd("ShowNotice", <<"b">>),
    Cmd("Login", <<"a", "b">>), Cmd("FmDislike", <<>>) }

\* the result-applying Action a background task sends
ResultCmd == Cmd("RefreshSubLowView", <<"a">>)

\* a clone that copies the value into a cell of the component's own
ArcCloneCopy(c) == c

\* data.clone() on the Arc: a handle to the one cell
ArcClone(c) == "arc"

\* no Sender is kept: the channel is closed from the start
AppSendersDropped == {}

\* the Senders alive once App::new returns: the App's own field and the
\* clones the View, the Header and the Player keep
AppSenders == {"app"} \cup Components

Init ==
  /\ chan = <<>>
  /\ senders = AppSenders
  /\ disp = "polling"
  /\ view = <<>>
  /\ header = <<>>
  /\ player = <<>>
  /\ notice = <<>>
  /\ overlay = {}
  /\ destroyed = {}
  /\ created = 0
  /\ data = 0
  /\ guardOf = [c \in Components |-> ArcClone(c)]
  /\ copies = [c \in Components |-> 0]
  /\ tasks = [t \in TaskIds |-> [pc |-> "idle", gen |-> NoGen, seen |-> NoGen]]
  /\ sentLog = <<>>
  /\ handled = <<>>
  /\ lastTick = [ret |-> "none", drained |-> <<>>, calls |-> <<>>]

\* ------------------------------------------------------------- the channel
\* a queue that puts the newest message first (a stack)
PushFront(q, m) == <<m>> \o q

\* the unbounded queue: a message joins at the back
Push(q, m) == Append(q, m)

\* send on a channel of capacity 2: the producer waits while it is full
SendBounded(p, c) ==
  /\ disp = "polling"
  /\ p[1] \in senders
  /\ Len(chan) < 2
  /\ chan' = Push(chan, Msg(c, p, sentLog, NoGen))
  /\ sentLog' = Append(sentLog, Msg(c, p, sentLog, NoGen))
  /\ UNCHANGED << senders, handles, disp, downstream, data, tasks, handled, lastTick >>

\* Sender::send on an unbounded channel: appends, whatever the backlog
Send(p, c) ==
  /\ disp = "polling"
  /\ p[1] \in senders
  /\ chan' = Push(chan, Msg(c, p, sentLog, NoGen))
  /\ sentLog' = Append(sentLog, Msg(c, p, sentLog, NoGen))
  /\ UNCHANGED << senders, handles, disp, downstream, data, tasks, handled, lastTick >>

\* a receive that prefers a queued ShowNotice to whatever is at the head
RecvMsgNoticeFirst(q) ==
  IF \E i \in 1..Len(q) : q[i].cmd.kind = "ShowNotice"
  THEN q[CHOOSE i \in 1..Len(q) : q[i].cmd.kind = "ShowNotice"]
  ELSE Head(q)

\* Receiver::try_recv, Ok(a): the oldest message, and what stays queued
RecvMsg(q) == Head(q)

\* a receive that reads the head and leaves it queued
RecvRestPeek(q) == q

\* a receive that takes a second message out with the first
RecvRestTwo(q) == IF Len(q) >= 2 THEN Tail(Tail(q)) ELSE Tail(q)

RecvRest(q) == Tail(q)

\* Receiver::try_recv
TryRecv ==
  IF chan # <<>> THEN "Ok"
  ELSE IF senders = {} THEN "Disconnected"
  ELSE "Empty"

\* ------------------------------------------------------ notification slot
Notif(id, text) == [id |-> id, text |-> text]

\* mark_all_notif(text)
mark_all_notif(text) == Notif(created + 1, text)

Slot(n, o, d) == [notice |-> n, overlay |-> o, destroyed |-> d]

\* InAppNotification::destroy: the widget leaves its parent and is dead
destroy(s, n) == Slot(s.notice, s.overlay \ {n}, s.destroyed \cup {n})

\* InAppNotification::show(&overlay): the widget is added to the overlay
show(s, n) == Slot(s.notice, s.overlay \cup {n}, s.destroyed)

\* a ShowNotice arm that drops the old notification without destroying it
ShowNoticeStepsNoDestroy(s, text) ==
  LET notif == mark_all_notif(text)
      s1 == Slot(<<notif>>, s.overlay, s.destroyed)
      s3 == IF s1.notice # <<>> THEN show(s1, s1.notice[1]) ELSE s1
  IN << s, s1, s1, s3 >>

\* a ShowNotice arm that shows the new notification before it destroys the old
ShowNoticeStepsShowFirst(s, text) ==
  LET notif == mark_all_notif(text)
      old == s.notice
      s1 == Slot(<<notif>>, s.overlay, s.destroyed)
      s2 == IF s1.notice # <<>> THEN show(s1, s1.notice[1]) ELSE s1
      s3 == IF old # <<>> THEN destroy(s2, old[1]) ELSE s2
  IN << s, s1, s2, s3 >>

\* the ShowNotice arm, statement by statement: the slot before, after
\* notice.replace(Some(notif)), after old.map(destroy), after map(show)
ShowNoticeSteps(s, text) ==
  LET notif == mark_all_notif(text)
      old == s.notice
      s1 == Slot(<<notif>>, s.overlay, s.destroyed)
      s2 == IF old # <<>> THEN destroy(s1, old[1]) ELSE s1
      s3 == IF s2.notice # <<>> THEN show(s2, s2.notice[1]) ELSE s2
  IN << s, s1, s2, s3 >>

ShowNotice(s, text) == ShowNoticeSteps(s, text)[4]

\* ---------------------------------------------------------------- handlers
\* what a handler may itself send on its component's Sender before returning
HandlerSends(action) ==
  IF action.kind = "Login"
  THEN { <<>>, << Cmd("RefreshHeaderUser", <<>>) >> }
  ELSE { <<>> }

\* ------------------------------------------------------------ the poll tick
\* gtk::timeout_add: the timer stays scheduled while the callback returns
\* Continue(true) and is removed when it returns Continue(false)
Timer(ret) == IF ret = "continue" THEN "polling" ELSE "stopped"

\* a tick that switches polling off once it has handled FmDislike
HandledReturnStopOnFmDislike(action) ==
  IF action.kind = "FmDislike" THEN "stop" ELSE "continue"

\* what the tick returns after the match: glib::Continue(true)
HandledReturn(action) == "continue"

\* an empty tick that switches polling off
TickEmptyStop ==
  /\ lastTick' = [ret |-> "stop", drained |-> <<>>, calls |-> <<>>]
  /\ disp' = Timer("stop")
  /\ UNCHANGED << chan, senders, handles, downstream, data, tasks, sentLog, handled >>

\* an empty tick that reports the idle queue on the overlay
TickEmptyNotify ==
  /\ lastTick' = [ret |-> "continue", drained |-> <<>>, calls |-> <<>>]
  /\ overlay' = overlay \cup { Notif(0, "a") }
  /\ UNCHANGED << chan, senders, handles, disp, view, header, player, notice,
                  destroyed, created, data, tasks, sentLog, handled >>

\* Err(TryRecvError::Empty) => return glib::Continue(true)
TickEmpty ==
  /\ lastTick' = [ret |-> "continue", drained |-> <<>>, calls |-> <<>>]
  /\ UNCHANGED << chan, senders, handles, disp, downstream, data, tasks, sentLog, handled >>

\* a Disconnected arm that keeps polling, as the Empty arm does
TickClosedContinue ==
  /\ lastTick' = [ret |-> "continue", drained |-> <<>>, calls |-> <<>>]
  /\ UNCHANGED << chan, senders, handles, disp, downstream, data, tasks, sentLog, handled >>

\* Err(TryRecvError::Disconnected) => unreachable!(..): the callback panics
TickClosed ==
  /\ disp' = "panicked"
  /\ lastTick' = [ret |-> "panic", drained |-> <<>>, calls |-> <<>>]
  /\ UNCHANGED << chan, senders, handles, downstream, data, tasks, sentLog, handled >>

\* App::setup_action_channel, one invocation
Tick ==
  /\ disp = "polling"
  /\ LET r == TryRecv IN
     CASE r = "Ok" ->
            LET m == RecvMsg(chan)
                calls == Route(m.cmd)
                s == IF m.cmd.kind = "ShowNotice"
                     THEN ShowNotice(Slot(notice, overlay, destroyed), m.cmd.args[1])
                     ELSE Slot(notice, overlay, destroyed)
            IN /\ view' = view \o CallsOn(calls, "view")
               /\ header' = header \o CallsOn(calls, "header")
               /\ player' = player \o CallsOn(calls, "player")
               /\ notice' = s.notice
               /\ overlay' = s.overlay
               /\ destroyed' = s.destroyed
               /\ created' = IF m.cmd.kind = "ShowNotice" THEN created + 1 ELSE created
               /\ handled' = Append(handled, m)
               /\ lastTick' = [ret |-> HandledReturn(m.cmd), drained |-> <<m>>,
                               calls |-> calls]
               /\ disp' = Timer(HandledReturn(m.cmd))
               /\ \E f \in HandlerSends(m.cmd) :
                    IF f = <<>>
                    THEN /\ chan' = RecvRest(chan)
                         /\ sentLog' = sentLog
                    ELSE LET n == Msg(f[1], Comp(calls[1].comp), sentLog, NoGen)
                         IN /\ chan' = Push(RecvRest(chan), n)
                            /\ sentLog' = Append(sentLog, n)
               /\ UNCHANGED << senders, handles, data, tasks >>
       [] r = "Empty" -> TickEmpty
       [] r = "Disconnected" -> TickClosed

\* ------------------------------------------------------- the guard and tasks
\* advance(): the cell is a u8
AdvanceGen(g) == (g + 1) % U8

\* current_generation() as component c observes it through its handle
Current(c) == IF guardOf[c] = "arc" THEN data ELSE copies[c]

\* advance() called by component c through its handle
AdvanceVia(c) ==
  /\ disp = "polling"
  /\ IF guardOf[c] = "arc"
     THEN /\ data' = AdvanceGen(data)
          /\ copies' = copies
     ELSE /\ copies' = [copies EXCEPT ![c] = AdvanceGen(copies[c])]
          /\ data' = data
  /\ UNCHANGED << chan, senders, guardOf, disp, downstream, tasks, sentLog,
                  handled, lastTick >>

\* advance(), at most MaxAdvance times
Advance(c) == Current(c) < MaxAdvance /\ AdvanceVia(c)

\* a background task starts and captures the current generation
TaskStart(t) ==
  /\ disp = "polling"
  /\ tasks[t].pc = "idle"
  /\ tasks' = [tasks EXCEPT ![t] = [pc |-> "running", gen |-> <<data>>, seen |-> NoGen]]
  /\ UNCHANGED << chan, senders, handles, disp, downstream, data, sentLog, handled,
                  lastTick >>

\* a check that only rejects generations from the future
StillCurrentLe(captured, current) == captured <= current

\* the generation check a task makes on completion
StillCurrent(captured, current) == captured = current

\* the task completes: under the lock it compares its generation
TaskCheck(t) ==
  /\ disp = "polling"
  /\ tasks[t].pc = "running"
  /\ tasks' = [tasks EXCEPT ![t].pc = IF StillCurrent(tasks[t].gen[1], data)
                                      THEN "passed" ELSE "done",
                            ![t].seen = <<data>>]
  /\ UNCHANGED << chan, senders, handles, disp, downstream, data, sentLog, handled,
                  lastTick >>

\* the task whose check passed sends its result, outside the lock
TaskSend(t) ==
  /\ disp = "polling"
  /\ tasks[t].pc = "passed"
  /\ chan' = Push(chan, Msg(ResultCmd, Task(t), sentLog, tasks[t].gen))
  /\ sentLog' = Append(sentLog, Msg(ResultCmd, Task(t), sentLog, tasks[t].gen))
  /\ tasks' = [tasks EXCEPT ![t].pc = "done"]
  /\ UNCHANGED << senders, handles, disp, downstream, data, handled, lastTick >>

\* ---------------------------------------------------------- specifications
\* the components send, the timer ticks
Next ==
  \/ \E c \in Components, a \in SampleCmds :
        Len(sentLog) < MaxSends /\ Send(Comp(c), a)
  \/ Tick

Spec == Init /\ [][Next]_vars

\* background tasks race with advance() and with the timer
NextGuard ==
  \/ Tick
  \/ \E c \in Components : Advance(c)
  \/ \E t \in TaskIds : TaskStart(t)
  \/ \E t \in TaskIds : TaskCheck(t)
  \/ \E t \in TaskIds : TaskSend(t)

SpecGuard == Init /\ [][NextGuard]_vars

\* every value of the Action enum is sent and routed
NextRoute ==
  \/ \E c \in Components, a \in Action :
        Len(sentLog) < MaxRouteSends /\ Send(Comp(c), a)
  \/ Tick

SpecRoute == Init /\ [][NextRoute]_vars

\* the components send and the timer keeps firing: gtk::timeout_add(25, ..)
\* calls the tick again and again for as long as it returns Continue(true)
NextLive ==
  \/ \E c \in Components, a \in SampleCmds :
        Len(sentLog) < MaxLiveSends /\ Send(Comp(c), a)
  \/ Tick

SpecLive == Init /\ [][NextLive]_vars /\ WF_vars(Tick)

\* the guard is advanced without end: the u8 cell goes round
NextWrap == \E c \in Components : AdvanceVia(c)

SpecWrap == Init /\ [][NextWrap]_vars

\* a Sender handle is dropped
DropSender(h) ==
  /\ disp = "polling"
  /\ h \in senders
  /\ senders' = senders \ {h}
  /\ UNCHANGED << chan, handles, disp, downstream, data, tasks, sentLog,
                  handled, lastTick >>

\* the lifecycle fault of a closed channel: every Sender, the App's own
\* included, may be dropped while the timer still ticks
NextClosed ==
  \/ \E c \in Components, a \in SampleCmds :
        Len(sentLog) < MaxClosedSends /\ Send(Comp(c), a)
  \/ \E h \in {"app"} \cup Components : DropSender(h)
  \/ Tick

SpecClosed == Init /\ [][NextClosed]_vars

\* ================================================================ properties
RECURSIVE FromSeq(_, _)
\* the messages of a log that producer p sent, in log order
FromSeq(log, p) ==
  IF log = <<>> THEN <<>>
  ELSE IF Head(log).from = p
       THEN <<Head(log)>> \o FromSeq(Tail(log), p)
       ELSE FromSeq(Tail(log), p)

IsPrefix(a, b) == Len(a) <= Len(b) /\ SubSeq(b, 1, Len(a)) = a

\* C1: for every producer, the Commands the ticks have handed to handlers
\* are the first Commands that producer sent, in the order it sent them
\* (per-producer sequence numbers 1, 2, 3, ... with no gap and no swap),
\* whatever the other producers sent in between.
C1_ProducerOrder ==
  \A p \in Producers :
    LET h == FromSeq(handled, p) IN
      /\ IsPrefix(h, FromSeq(sentLog, p))
      /\ \A i \in 1..Len(h) : h[i].seq = i

\* two Commands of one producer were handled, different Actions, with
\* another producer's Command handled between them
C1_Witness ==
  \E i, j, k \in 1..Len(handled) :
    /\ i < j /\ j < k
    /\ handled[i].from = handled[k].from
    /\ handled[j].from # handled[i].from
    /\ handled[i].cmd # handled[k].cmd

\* C2: a step in which a tick drains hands exactly one Command to a handler,
\* the one at the head of the queue, and every other queued Command is still
\* queued, in place, afterwards; no step drains from an empty queue.
C2_OnePerTick ==
  [][ /\ Len(handled') <= Len(handled) + 1
      /\ handled' # handled =>
           /\ chan # <<>>
           /\ handled' = Append(handled, Head(chan))
           /\ IsPrefix(Tail(chan), chan')
           /\ lastTick'.drained = << Head(chan) >>
      /\ (Tick /\ chan # <<>>) => handled' # handled ]_vars

\* a tick has drained one Command from a queue that still holds two more
C2_Witness ==
  /\ lastTick.drained # <<>>
  /\ Len(handled) = 1
  /\ Len(chan) >= 2

\* the handler calls a step delivers to the downstream components: the new
\* entries of the View, Header and Player, and the notifications built
NewCalls ==
  (Len(view') - Len(view)) + (Len(header') - Len(header))
    + (Len(player') - Len(player)) + (created' - created)

\* C3 as stated: the tick that drains a Command, of whatever variant, makes
\* exactly one handler call, on one component.
C3_ExactlyOneCall ==
  lastTick.drained # <<>> => Len(lastTick.calls) = 1

\* C3 as amended: the tick that drains a Command makes exactly one handler
\* call on one component, except for FmDislike, whose tick calls
\* Player.forward and then View.dislike_fm; no variant makes zero calls.
C3_OneCallExceptFmDislike ==
  [][ handled' # handled =>
        LET k == Head(chan).cmd.kind
            calls == lastTick'.calls
        IN IF k = "FmDislike"
           THEN /\ calls = << Call("player", "forward", <<>>),
                              Call("view", "dislike_fm", <<>>) >>
                /\ player' = Append(player, calls[1])
                /\ view' = Append(view, calls[2])
                /\ NewCalls = 2
           ELSE /\ Len(calls) = 1
                /\ NewCalls = 1 ]_vars

\* a tick has drained FmDislike and both the Player and the View were called
C3_Witness ==
  /\ lastTick.drained # <<>>
  /\ lastTick.drained[1].cmd.kind = "FmDislike"
  /\ player # <<>>
  /\ view # <<>>

RECURSIVE NoticeTexts(_)
\* the texts of the ShowNotice Commands of a log, in order
NoticeTexts(log) ==
  IF log = <<>> THEN <<>>
  ELSE IF Head(log).cmd.kind = "ShowNotice"
       THEN << Head(log).cmd.args[1] >> \o NoticeTexts(Tail(log))
       ELSE NoticeTexts(Tail(log))

\* C4: after any sequence of dispatched Commands the overlay holds no
\* notification if no ShowNotice was dispatched, and otherwise exactly one,
\* the one held in the slot, carrying the text of the most recently
\* dispatched ShowNotice; every notification built before it is destroyed
\* and none of the destroyed ones is attached.
C4_SingleNotice ==
  LET texts == NoticeTexts(handled)
      n == Len(texts)
  IN /\ created = n
     /\ Cardinality(overlay) <= 1
     /\ n = 0 => overlay = {} /\ notice = <<>> /\ destroyed = {}
     /\ n > 0 =>
          /\ overlay = { Notif(n, texts[n]) }
          /\ notice = << Notif(n, texts[n]) >>
          /\ destroyed = { Notif(i, texts[i]) : i \in 1..(n - 1) }
     /\ overlay \cap destroyed = {}

\* two ShowNotice Commands with different texts were dispatched, another
\* Command between them
C4_Witness ==
  /\ Len(handled) = 3
  /\ handled[1].cmd = Cmd("ShowNotice", <<"a">>)
  /\ handled[2].cmd.kind # "ShowNotice"
  /\ handled[3].cmd = Cmd("ShowNotice", <<"b">>)
  /\ Cardinality(destroyed) = 1

\* C5: a background task that completes when the guard has been advanced
\* past the generation it captured (captured G1, observed G2 > G1) fails its
\* check, ends without sending, and no Command of it is ever on the channel.
C5_StaleTaskSendsNothing ==
  \A t \in TaskIds :
    (tasks[t].seen # NoGen /\ tasks[t].seen[1] > tasks[t].gen[1]) =>
      /\ tasks[t].pc = "done"
      /\ FromSeq(sentLog, Task(t)) = <<>>

\* one task captured generation 0 and completed after advance() had made it
\* 1; another task, whose generation was still current, did send its result
C5_Witness ==
  \E t, u \in TaskIds :
    /\ tasks[t].gen = <<0>> /\ tasks[t].seen = <<1>> /\ tasks[t].pc = "done"
    /\ FromSeq(sentLog, Task(u)) # <<>>

\* C6: whenever a tick applies a background task's result to the View, the
\* generation the task had captured is the current generation at that moment.
C6_NeverAppliesStale ==
  [][ (handled' # handled /\ Head(chan).gen # NoGen) =>
        Head(chan).gen = <<data>> ]_vars

\* C7: while the timer is alive, whatever the backlog, every producer that
\* holds a Sender can send every Command at once: the send is enabled in
\* every reachable state, and a step that sends appends to the queue and
\* touches nothing of the Dispatcher.
C7_SendNeverBlocks ==
  disp = "polling" =>
    \A c \in Components, a \in SampleCmds :
      c \in senders => ENABLED Send(Comp(c), a)

\* a backlog of three Commands has built up and no tick has drained anything
C7_Witness ==
  /\ Len(chan) >= 3
  /\ handled = <<>>
  /\ lastTick.ret = "none"

\* C8: a tick that finds the channel empty returns continue and calls no
\* handler: the View, the Header, the Player, the notification slot, the
\* overlay and the channel are as they were before the tick.
C8_EmptyTickNoEffect ==
  [][ (Tick /\ chan = <<>>) =>
        /\ lastTick'.ret = "continue"
        /\ lastTick'.calls = <<>>
        /\ lastTick'.drained = <<>>
        /\ UNCHANGED << view, header, player, notice, overlay, destroyed,
                        created, chan, sentLog, handled, disp >> ]_vars

\* a tick found the channel empty after earlier ticks had dispatched a
\* notice and a Header Command
C8_Witness ==
  /\ lastTick.ret = "continue"
  /\ lastTick.drained = <<>>
  /\ chan = <<>>
  /\ overlay # {}
  /\ header # <<>>

\* C9: at every state the Commands sent so far are exactly the Commands
\* already handed to handlers followed by the Commands still queued, and no
\* message occurs twice among them: nothing is handled twice, retried,
\* withdrawn or dropped.
C9_ExactlyOnce ==
  /\ sentLog = handled \o chan
  /\ \A i, j \in 1..Len(handled) : handled[i] = handled[j] => i = j

\* Commands were handled, one of them a handler's own follow-up send, while
\* another is still queued
C9_Witness ==
  /\ Len(handled) >= 2
  /\ chan # <<>>
  /\ \E i \in 1..Len(handled) : handled[i].cmd.kind = "RefreshHeaderUser"

\* C10: a tick that observes the channel disconnected ends the Dispatcher:
\* it calls no handler, changes no downstream state, does not return
\* continue, and no tick ever runs after it.
C10_ClosedIsFatal ==
  [][ /\ (Tick /\ TryRecv = "Disconnected") =>
           /\ disp' = "panicked"
           /\ lastTick'.ret # "continue"
           /\ lastTick'.calls = <<>>
           /\ UNCHANGED << view, header, player, notice, overlay, destroyed,
                           created, chan, handled >>
      /\ disp = "panicked" => UNCHANGED vars ]_vars

\* the Dispatcher has panicked on a closed channel after it had dispatched
\* Commands
C10_Witness ==
  /\ disp = "panicked"
  /\ senders = {}
  /\ handled # <<>>
  /\ overlay # {}

\* the components a step calls: those whose call log grew, and the
\* notification slot when a notification was built
CalledComps ==
  { c \in {"view", "header", "player", "notice"} :
      \/ c = "view" /\ view' # view
      \/ c = "header" /\ header' # header
      \/ c = "player" /\ player' # player
      \/ c = "notice" /\ created' # created }

SessionKinds ==
  { "Login", "Logout", "DailyTask", "RefreshHeaderUser",
    "RefreshHeaderUserLogin", "RefreshHeaderUserLogout", "SwitchHeaderBar" }

PlaybackKinds ==
  { "PlayerInit", "Player", "PlayerSubpages", "PlayerFound", "PlayerMine",
    "PlayerFm", "FmLike", "FmDislike" }

\* the routing table of the claim: by the kind of the Command
TableByKind(k) ==
  IF k \in SessionKinds THEN {"header"}
  ELSE IF k \in PlaybackKinds THEN {"player"}
  ELSE IF k = "ShowNotice" THEN {"notice"}
  ELSE {"view"}

\* the routing table of the match: by variant
TableByVariant(k) ==
  IF k \in SessionKinds THEN {"header"}
  ELSE IF k \in {"PlayerInit", "Player"} THEN {"player"}
  ELSE IF k = "FmDislike" THEN {"player", "view"}
  ELSE IF k = "ShowNotice" THEN {"notice"}
  ELSE {"view"}

\* C11 as stated: every playback Command (the Player* and Fm variants) is
\* handled by the Player, every session Command by the Header, every
\* notification Command by the notification slot, every other by the View.
C11_RoutingByKind ==
  [][ handled' # handled =>
        CalledComps = TableByKind(Head(chan).cmd.kind) ]_vars

\* C11 as amended: session Commands and SwitchHeaderBar are handled by the
\* Header, ShowNotice by the notification slot, PlayerInit and Player by the
\* Player, FmDislike by the Player and the View, and every other variant,
\* the playback variants PlayerFm, PlayerSubpages, PlayerFound, PlayerMine
\* and FmLike among them, by the View.
C11_RoutingByVariant ==
  [][ handled' # handled =>
        /\ CalledComps = TableByVariant(Head(chan).cmd.kind)
        /\ { lastTick'.calls[i].comp : i \in 1..Len(lastTick'.calls) }
             = TableByVariant(Head(chan).cmd.kind) ]_vars

\* a tick has drained PlayerFm and it was the View that was called
C11_Witness ==
  /\ lastTick.drained # <<>>
  /\ lastTick.drained[1].cmd.kind = "PlayerFm"
  /\ view = << Call("view", "play_fm", <<>>) >>
  /\ player = <<>>

\* C12: the handler a tick calls for a payload-carrying Command receives the
\* payload values that were sent, all of them, unmodified and in the same
\* positions: Login(u, p) calls Header.login once with (u, p) and
\* SwitchStackSub((id, name, path)) calls View.switch_stack_sub with
\* (id, name, path).
C12_PayloadUnmodified ==
  [][ handled' # handled =>
        LET m == Head(chan)
            calls == lastTick'.calls
        IN /\ Arity[m.cmd.kind] > 0 =>
                /\ Len(calls) = 1
                /\ calls[1].args = m.cmd.args
           /\ m.cmd.kind = "Login" =>
                header' = Append(header, Call("header", "login",
                                              << m.cmd.args[1], m.cmd.args[2] >>))
           /\ m.cmd.kind = "SwitchStackSub" =>
                view' = Append(view, Call("view", "switch_stack_sub",
                                          << m.cmd.args[1], m.cmd.args[2],
                                             m.cmd.args[3] >>)) ]_vars

\* Login("a", "b") was sent and the Header's login handler has been called
\* once, with that pair
C12_Witness ==
  /\ Len(handled) = 1
  /\ handled[1].cmd = Cmd("Login", <<"a", "b">>)
  /\ header = << Call("header", "login", <<"a", "b">>) >>

\* C13: every advance() leaves the current generation strictly greater than
\* it was, and so greater than every generation issued before, however many
\* advances have been made.
C13_Monotonic ==
  [][ data' # data => data' > data ]_vars

\* C17: the View, the Header and the Player hold handles to one cell: at
\* every state the three observe the same current generation, which is 0
\* until the first advance(), and an advance() made through any one of them
\* is the new generation the other two observe.
C17_GuardShared ==
  [][ /\ \A c, d \in Components : Current(c) = Current(d)
      /\ \A c \in Components :
           AdvanceVia(c) =>
             \A d \in Components : Current(d)' = AdvanceGen(Current(c)) ]_vars

\* the guard has been advanced twice and a task started after the advances
\* captured the generation every component observes
C17_Witness ==
  /\ \A c \in Components : Current(c) = 2
  /\ \E t \in TaskIds : tasks[t].gen = <<2>>

\* C14: while a tick handles ShowNotice with a notification already held,
\* after each statement of the arm (replace, destroy, show) at most one
\* notification is attached to the overlay: the old one is off the overlay
\* and destroyed before the new one is attached, and the arm ends in the
\* state the tick leaves.
C14_NoDoubleVisible ==
  [][ (handled' # handled /\ Head(chan).cmd.kind = "ShowNotice") =>
        LET steps == ShowNoticeSteps(Slot(notice, overlay, destroyed),
                                     Head(chan).cmd.args[1])
        IN /\ \A i \in 1..Len(steps) : Cardinality(steps[i].overlay) <= 1
           /\ notice # <<>> =>
                /\ steps[3].overlay = {}
                /\ notice[1] \in steps[3].destroyed
           /\ steps[Len(steps)] = Slot(notice', overlay', destroyed') ]_vars

\* a tick has handled ShowNotice while an earlier notification was held and
\* shown
C14_Witness ==
  /\ lastTick.drained # <<>>
  /\ lastTick.drained[1].cmd.kind = "ShowNotice"
  /\ created = 2
  /\ Cardinality(destroyed) = 1
  /\ Cardinality(overlay) = 1

\* C15: across all producers the ticks hand Commands to handlers in the
\* order they entered the channel: the n-th Command handled is the n-th
\* Command that arrived, whatever its variant and whoever sent it, so none
\* is handled after a Command that arrived later.
C15_ArrivalOrder ==
  /\ Len(handled) <= Len(sentLog)
  /\ \A n \in 1..Len(handled) : handled[n] = sentLog[n]

\* three Commands of three producers were handled in arrival order, a
\* ShowNotice after an FmDislike that had arrived before it
C15_Witness ==
  /\ Len(handled) = 3
  /\ handled[1].cmd.kind = "FmDislike"
  /\ handled[2].cmd.kind = "ShowNotice"
  /\ Cardinality({ handled[i].from : i \in 1..3 }) = 3
  /\ lastTick.drained = << handled[3] >>

\* C16: a Command a handler sends while its tick is handling another one
\* joins the back of the channel, behind every Command that was pending, and
\* is not handled by that tick: the tick still hands exactly one Command, the
\* head, to a handler.
C16_HandlerSendQueued ==
  [][ (handled' # handled /\ sentLog' # sentLog) =>
        LET n == sentLog'[Len(sentLog')]
        IN /\ Len(sentLog') = Len(sentLog) + 1
           /\ handled' = Append(handled, Head(chan))
           /\ chan' = Append(Tail(chan), n)
           /\ n # Head(chan)
           /\ \A i \in 1..Len(handled') : handled'[i] # n ]_vars

\* the Login handler sent RefreshHeaderUser while another Command was
\* pending; that Command was handled by the next tick and the handler's
\* Command by the one after
C16_Witness ==
  /\ Len(handled) = 3
  /\ handled[1].cmd.kind = "Login"
  /\ handled[2].cmd.kind = "ShowNotice"
  /\ handled[3].cmd.kind = "RefreshHeaderUser"
  /\ handled[3].from = Comp("header")

\* C18: with the timer firing and the channel open, every Command sent is
\* eventually handed to its handler: the n-th Command to enter the channel
\* becomes the n-th Command handled.  Every tick that finds a Command drains
\* one and moves each pending Command one place forward, so a Command with
\* k Commands ahead of it is handled by the (k+1)-th tick.
C18_EventuallyHandled ==
  /\ \A n \in 1..(2 * MaxLiveSends) :
       (Len(sentLog) >= n) ~> (Len(handled) >= n /\ handled[n] = sentLog[n])
  /\ [][ /\ (Tick /\ chan # <<>>) =>
              /\ handled' = Append(handled, chan[1])
              /\ \A i \in 2..Len(chan) : chan'[i - 1] = chan[i]
         /\ ENABLED Tick ]_vars

\* two Commands of one producer have both been handled, in the order sent,
\* and nothing is left pending
C18_Witness ==
  /\ Len(handled) = 2
  /\ chan = <<>>
  /\ handled[1].seq = 1 /\ handled[2].seq = 2
  /\ handled[1].from = handled[2].from
  /\ handled[2].cmd.kind = "FmDislike"

\* C19: in every state a tick can run the App's own Sender is alive, so
\* try_recv yields a Command or Empty, never Disconnected, and no tick has
\* ever taken the Disconnected arm.
C19_ClosedUnreachable ==
  /\ "app" \in senders
  /\ TryRecv \in {"Ok", "Empty"}
  /\ disp = "polling"
  /\ lastTick.ret # "panic"

\* ticks have run on a queue with Commands and on an empty queue
C19_Witness ==
  /\ handled # <<>>
  /\ lastTick.ret = "continue"
  /\ lastTick.drained = <<>>
  /\ TryRecv = "Empty"

\* C20: no tick returns stop: whatever variant it handled, or when it found
\* the channel empty, the tick returned continue and the timer is still
\* scheduled.
C20_NeverStops ==
  /\ lastTick.ret \in {"none", "continue"}
  /\ disp = "polling"

\* a tick has handled Logout and returned continue
C20_Witness ==
  /\ lastTick.ret = "continue"
  /\ lastTick.drained # <<>>
  /\ lastTick.drained[1].cmd.kind = "Logout"
  /\ disp = "polling"

====
